---- MODULE Spec2Model ----
(***************************************************************************)
(* tembo-telemetry (src/src/lib.rs): the telemetry initializer             *)
(* (TelemetryInit::init for TelemetryConfig) and the route-filtered        *)
(* request logger (EXCLUDED_ROUTES, CustomFilterRootSpanBuilder,           *)
(* CustomLoggerBuilder).                                                   *)
(***************************************************************************)
EXTENDS Integers, Sequences, FiniteSets, TLC

\* OS threads of the process: each owns one copy of every thread_local!.
Threads == {"t1", "t2"}

\* Longest exclude() chain put on one builder.
MaxRoutes == 2

-----------------------------------------------------------------------------
(* Strings are sequences of one-character strings, so that equality,       *)
(* prefixes and letter case are distinguishable.                           *)

\* Routes handed to exclude(): "/h", "/a", "/h/x".
Routes == { <<"/", "h">>, <<"/", "a">>, <<"/", "h", "/", "x">> }

\* Request URIs: "/h", "/H", "/h/", "/h/x", "/a", "/h?q".
Uris ==
    { <<"/", "h">>, <<"/", "H">>, <<"/", "h", "/">>, <<"/", "h", "/", "x">>,
      <<"/", "a">>, <<"/", "h", "?", "q">> }

\* All sequences over S of length at most n.
SeqUpTo(S, n) == UNION { [1..k -> S] : k \in 0..n }

\* ServiceRequest::path(): the URI up to, not including, the first '?'.
path(uri) ==
    LET cut == { i \in 1..Len(uri) : uri[i] = "?" }
        end == IF cut = {} THEN Len(uri)
               ELSE (CHOOSE i \in cut : \A j \in cut : i <= j) - 1
    IN  SubSeq(uri, 1, end)

\* A comparison that ignores letter case ("H" for "h").
str_eq_ignore_case(a, b) ==
    LET lower(c) == IF c = "H" THEN "h" ELSE IF c = "A" THEN "a"
                    ELSE IF c = "X" THEN "x" ELSE c
    IN  Len(a) = Len(b) /\ \A i \in 1..Len(a) : lower(a[i]) = lower(b[i])

\* String == String: same length and the same character at every index.
str_eq(a, b) == Len(a) = Len(b) /\ \A i \in 1..Len(a) : a[i] = b[i]

\* Vec<String>::contains: some element equals x.
contains(v, x) == \E i \in 1..Len(v) : str_eq(v[i], x)

-----------------------------------------------------------------------------
VARIABLES
    EXCLUDED_ROUTES,   \* thread -> Vec<String>, the thread_local! RefCell
    published,         \* thread -> routes passed to exclude() on the builder
                       \*   whose build() ran last on that thread
    lastBuild,         \* thread whose build() ran most recently, or "none"
    lastRequest        \* the most recent on_request_start call and its span

loggerVars == <<EXCLUDED_ROUTES, published, lastBuild, lastRequest>>

-----------------------------------------------------------------------------
(* TelemetryConfig values handed to init. *)

None == "None"

AppNames == {"svc"}
Envs == {"development", "Development", ""}
EndpointUrls == {None, "http://collector:4317", "not a url"}
TracerIds == {None, "tembo.io/trace"}

\* #[derive(Default)]: empty strings, both options None.
DefaultConfig ==
    [app_name |-> "", env |-> "", endpoint_url |-> None, tracer_id |-> None]

\* struct TelemetryConfig: the default value and those of a named service.
TelemetryConfig ==
    [app_name : AppNames, env : Envs, endpoint_url : EndpointUrls,
     tracer_id : TracerIds] \cup {DefaultConfig}

VARIABLES
    propagator,        \* opentelemetry global text-map propagator
    tracer_provider,   \* opentelemetry global tracer provider
    subscriber,        \* tracing's global default subscriber
    logger,            \* the log crate's global logger
    pc,                \* thread -> position of its init call
    cfg,               \* thread -> the TelemetryConfig of its init call
    steps,             \* thread -> global operations its init call has invoked
    failed,            \* thread -> the operation of its call that returned Err
    fresh,             \* thread -> no subscriber and no logger when it entered
    result             \* thread -> how its init call ended

initVars ==
    <<propagator, tracer_provider, subscriber, logger, pc, cfg, steps, failed,
      fresh, result>>

vars == <<loggerVars, initVars>>

NoRequest == [thread |-> "none", uri |-> <<>>, span |-> "unset"]

TypeOK ==
    /\ EXCLUDED_ROUTES \in [Threads -> Seq(Routes)]
    /\ published \in [Threads -> Seq(Routes)]
    /\ lastBuild \in Threads \cup {"none"}

\* thread_local! initialiser: RefCell::new(Vec::new()) on every thread.
LoggerInit ==
    /\ EXCLUDED_ROUTES = [t \in Threads |-> <<>>]
    /\ published = [t \in Threads |-> <<>>]
    /\ lastBuild = "none"
    /\ lastRequest = NoRequest

\* One list shared by every thread (a process-wide static).
set_excluded_routes_shared(t, routes) ==
    EXCLUDED_ROUTES' = [u \in Threads |-> routes]

\* A build that extends the thread's list instead of replacing it.
set_excluded_routes_extend(t, routes) ==
    EXCLUDED_ROUTES' = [EXCLUDED_ROUTES EXCEPT ![t] = @ \o routes]

\* CustomFilterRootSpanBuilder::set_excluded_routes, run on thread t:
\* EXCLUDED_ROUTES.with(|excluded| *excluded.borrow_mut() = routes).
set_excluded_routes(t, routes) ==
    EXCLUDED_ROUTES' = [EXCLUDED_ROUTES EXCEPT ![t] = routes]

\* CustomLoggerBuilder::new / get_tracing_logger / Default: no excluded routes.
new == <<>>

\* CustomLoggerBuilder::exclude: push the route on the builder's vector.
exclude(self, route) == Append(self, route)

\* builder().exclude(args[1])...exclude(args[n]): the builder's vector.
RECURSIVE chain(_)
chain(args) ==
    IF args = <<>> THEN new
    ELSE exclude(chain(SubSeq(args, 1, Len(args) - 1)), args[Len(args)])

\* CustomLoggerBuilder::build on thread t, of the builder made by the chain
\* of exclude() calls args. The builder is a value owned by the chain; only
\* build() touches state outside it.
build(t, args) ==
    /\ set_excluded_routes(t, chain(args))
    /\ published' = [published EXCEPT ![t] = args]
    /\ lastBuild' = t
    /\ UNCHANGED lastRequest

\* CustomFilterRootSpanBuilder::on_request_start on thread t.
on_request_start(t, uri) ==
    LET should_exclude == contains(EXCLUDED_ROUTES[t], path(uri))
    IN  /\ lastRequest' = [thread |-> t, uri |-> uri,
                           span |-> IF should_exclude THEN "none" ELSE "root"]
        /\ UNCHANGED <<EXCLUDED_ROUTES, published, lastBuild>>

Build == \E t \in Threads : \E args \in SeqUpTo(Routes, MaxRoutes) : build(t, args)

OnRequestStart == \E t \in Threads : \E uri \in Uris : on_request_start(t, uri)

NextLogger ==
    \/ Build /\ UNCHANGED initVars
    \/ OnRequestStart /\ UNCHANGED initVars

-----------------------------------------------------------------------------
(* TelemetryInit::init for TelemetryConfig. The body holds no .await, so   *)
(* one call runs its steps in program order; calls on other threads may    *)
(* run between them.                                                       *)

NoSubscriber == [set |-> FALSE, layers |-> <<>>, by |-> "none"]
HostSubscriber == [set |-> TRUE, layers |-> <<"host">>, by |-> "host"]
NoProvider == [kind |-> "noop", service_name |-> "", endpoint |-> None]

\* No call of init has run on any thread.
CallsInit ==
    /\ propagator = "noop"
    /\ tracer_provider = NoProvider
    /\ pc = [t \in Threads |-> "idle"]
    /\ cfg = [t \in Threads |-> DefaultConfig]
    /\ steps = [t \in Threads |-> <<>>]
    /\ failed = [t \in Threads |-> "none"]
    /\ fresh = [t \in Threads |-> FALSE]
    /\ result = [t \in Threads |-> "none"]

\* A process in which nothing has installed a subscriber or a logger.
FreshProcess == subscriber = NoSubscriber /\ logger = "none"

\* The host application may have installed its own default subscriber or
\* its own log-crate logger before it calls init.
ProcessStart ==
    /\ subscriber \in {NoSubscriber, HostSubscriber}
    /\ logger \in {"none", "host"}

\* install_batch returns Err for an endpoint the tonic exporter cannot use.
exporter_fails(endpoint_url) == endpoint_url = "not a url"

\* A None arm that never looks at env and always logs as JSON.
subscriber_layers_json_only(c) ==
    IF c.endpoint_url # None
    THEN IF c.env = "development"
         THEN <<"telemetry", "fmt_compact", "env_filter">>
         ELSE <<"telemetry", "env_filter", "fmt_json_span_events_NONE">>
    ELSE <<"fmt_json_span_events_NONE", "env_filter">>

\* The OpenTelemetry layer added in every arm.
subscriber_layers_always_telemetry(c) ==
    IF c.env = "development"
    THEN <<"telemetry", "fmt_compact", "env_filter">>
    ELSE <<"telemetry", "env_filter", "fmt_json_span_events_NONE">>

\* The Registry::default().with(..) chain of each of the four arms:
\* lines 109-112, 116-119, 127 and 131-133.
subscriber_layers(c) ==
    IF c.endpoint_url # None
    THEN IF c.env = "development"
         THEN <<"telemetry", "fmt_compact", "env_filter">>
         ELSE <<"telemetry", "env_filter", "fmt_json_span_events_NONE">>
    ELSE IF c.env = "development"
         THEN <<"fmt_compact", "env_filter">>
         ELSE <<"fmt_json_span_events_NONE", "env_filter">>

\* Leave init: pc back to idle with the outcome recorded.
finish(t, outcome, op) ==
    /\ pc' = [pc EXCEPT ![t] = "idle"]
    /\ result' = [result EXCEPT ![t] = outcome]
    /\ failed' = [failed EXCEPT ![t] = op]

invoke(t, op) == steps' = [steps EXCEPT ![t] = Append(@, op)]

\* Lines 85-96: enter init with configuration c; install the propagator;
\* `match &self.endpoint_url` then selects the exporter arm or the None arm.
init_set_propagator(t, c) ==
    /\ pc[t] = "idle"
    /\ cfg' = [cfg EXCEPT ![t] = c]
    /\ steps' = [steps EXCEPT ![t] = <<"set_text_map_propagator">>]
    /\ propagator' = "TraceContextPropagator"
    /\ pc' = [pc EXCEPT ![t] = IF c.endpoint_url # None THEN "exporter"
                                ELSE "subscriber"]
    /\ result' = [result EXCEPT ![t] = "none"]
    /\ failed' = [failed EXCEPT ![t] = "none"]
    /\ fresh' = [fresh EXCEPT ![t] = ~subscriber.set /\ logger = "none"]
    /\ UNCHANGED <<tracer_provider, subscriber, logger>>

\* install_batch(..).unwrap(): a failed exporter panics.
init_install_batch_unwrap(t) ==
    /\ pc[t] = "exporter"
    /\ invoke(t, "install_batch")
    /\ IF exporter_fails(cfg[t].endpoint_url)
       THEN /\ finish(t, "panic", "install_batch")
            /\ UNCHANGED tracer_provider
       ELSE /\ tracer_provider' =
                  [kind |-> "otlp_batch", service_name |-> cfg[t].app_name,
                   endpoint |-> cfg[t].endpoint_url]
            /\ pc' = [pc EXCEPT ![t] = "subscriber"]
            /\ UNCHANGED <<result, failed>>
    /\ UNCHANGED <<propagator, subscriber, logger, cfg, fresh>>

\* Lines 97-105: Some(endpoint_url) => build the OTLP pipeline; `?` returns
\* its error.
init_install_batch(t) ==
    /\ pc[t] = "exporter"
    /\ invoke(t, "install_batch")
    /\ IF exporter_fails(cfg[t].endpoint_url)
       THEN /\ finish(t, "Err", "install_batch")
            /\ UNCHANGED tracer_provider
       ELSE /\ tracer_provider' =
                  [kind |-> "otlp_batch", service_name |-> cfg[t].app_name,
                   endpoint |-> cfg[t].endpoint_url]
            /\ pc' = [pc EXCEPT ![t] = "subscriber"]
            /\ UNCHANGED <<result, failed>>
    /\ UNCHANGED <<propagator, subscriber, logger, cfg, fresh>>

\* A set_global_default that overwrites the default already installed.
init_set_global_default_replace(t) ==
    /\ pc[t] = "subscriber"
    /\ invoke(t, "set_global_default")
    /\ subscriber' =
          [set |-> TRUE, layers |-> subscriber_layers(cfg[t]), by |-> t]
    /\ pc' = [pc EXCEPT ![t] = "tracer"]
    /\ UNCHANGED <<result, failed>>
    /\ UNCHANGED <<propagator, tracer_provider, logger, cfg, fresh>>

\* set_global_default(..)?: the install failure returned as Err.
init_set_global_default_try(t) ==
    /\ pc[t] = "subscriber"
    /\ invoke(t, "set_global_default")
    /\ IF subscriber.set
       THEN /\ finish(t, "Err", "set_global_default")
            /\ UNCHANGED subscriber
       ELSE /\ subscriber' =
                  [set |-> TRUE, layers |-> subscriber_layers(cfg[t]), by |-> t]
            /\ pc' = [pc EXCEPT ![t] = "tracer"]
            /\ UNCHANGED <<result, failed>>
    /\ UNCHANGED <<propagator, tracer_provider, logger, cfg, fresh>>

\* subscriber.init() in place of set_global_default: it also installs the
\* LogTracer, so the LogTracer::init() that follows returns Err.
init_set_global_default_via_init(t) ==
    /\ pc[t] = "subscriber"
    /\ invoke(t, "set_global_default")
    /\ IF subscriber.set
       THEN /\ finish(t, "panic", "set_global_default")
            /\ UNCHANGED <<subscriber, logger>>
       ELSE /\ subscriber' =
                  [set |-> TRUE, layers |-> subscriber_layers(cfg[t]), by |-> t]
            /\ logger' = IF logger = "none" THEN "LogTracer" ELSE logger
            /\ pc' = [pc EXCEPT ![t] = "tracer"]
            /\ UNCHANGED <<result, failed>>
    /\ UNCHANGED <<propagator, tracer_provider, cfg, fresh>>

\* Lines 106-136: compose the subscriber and set_global_default(..).expect(..):
\* set_global_default returns Err when a default is set, and expect panics.
init_set_global_default(t) ==
    /\ pc[t] = "subscriber"
    /\ invoke(t, "set_global_default")
    /\ IF subscriber.set
       THEN /\ finish(t, "panic", "set_global_default")
            /\ UNCHANGED subscriber
       ELSE /\ subscriber' =
                  [set |-> TRUE, layers |-> subscriber_layers(cfg[t]), by |-> t]
            /\ pc' = [pc EXCEPT ![t] = "tracer"]
            /\ UNCHANGED <<result, failed>>
    /\ UNCHANGED <<propagator, tracer_provider, logger, cfg, fresh>>

\* global::tracer called whether or not tracer_id is set.
init_tracer_unconditional(t) ==
    /\ pc[t] = "tracer"
    /\ invoke(t, "global_tracer")
    /\ pc' = [pc EXCEPT ![t] = "log_bridge"]
    /\ UNCHANGED <<propagator, tracer_provider, subscriber, logger, cfg, failed,
                   fresh, result>>

\* Lines 139-142: global::tracer(name) when tracer_id is Some.
init_tracer(t) ==
    /\ pc[t] = "tracer"
    /\ IF cfg[t].tracer_id # None
       THEN invoke(t, "global_tracer")
       ELSE UNCHANGED steps
    /\ pc' = [pc EXCEPT ![t] = "log_bridge"]
    /\ UNCHANGED <<propagator, tracer_provider, subscriber, logger, cfg, failed,
                   fresh, result>>

\* Lines 147-148: LogTracer::init()?; Ok(()). LogTracer::init returns Err
\* when the log crate already has a logger.
init_log_tracer(t) ==
    /\ pc[t] = "log_bridge"
    /\ invoke(t, "LogTracer_init")
    /\ IF logger # "none"
       THEN /\ finish(t, "Err", "LogTracer_init")
            /\ UNCHANGED logger
       ELSE /\ logger' = "LogTracer"
            /\ finish(t, "Ok", "none")
    /\ UNCHANGED <<propagator, tracer_provider, subscriber, cfg, fresh>>

SetPropagator == \E t \in Threads : \E c \in TelemetryConfig : init_set_propagator(t, c)
InstallBatch == \E t \in Threads : init_install_batch(t)
SetGlobalDefault == \E t \in Threads : init_set_global_default(t)
GlobalTracer == \E t \in Threads : init_tracer(t)
LogTracerInit == \E t \in Threads : init_log_tracer(t)

NextInit ==
    \/ SetPropagator /\ UNCHANGED loggerVars
    \/ InstallBatch /\ UNCHANGED loggerVars
    \/ SetGlobalDefault /\ UNCHANGED loggerVars
    \/ GlobalTracer /\ UNCHANGED loggerVars
    \/ LogTracerInit /\ UNCHANGED loggerVars

Init == LoggerInit /\ CallsInit /\ ProcessStart

Next == NextLogger \/ NextInit

Spec == Init /\ [][Next]_vars

\* The request logger alone, in a process that has not called init.
InitLogger == LoggerInit /\ CallsInit /\ FreshProcess

SpecLogger == InitLogger /\ [][NextLogger]_vars

\* The initializer alone, no middleware built.
SpecInit == Init /\ [][NextInit]_vars

-----------------------------------------------------------------------------
(* Properties of the request logger, checked under SpecLogger. *)

\* x is an element of the sequence v.
InList(v, x) == \E i \in DOMAIN v : v[i] = x

\* In the three properties of on_request_start below, a step that changes
\* lastRequest is a return of on_request_start: lastRequest' holds the
\* thread, the URI and the span returned, and the unprimed variables the
\* lists the call read.

\* C1: on_request_start on thread t returns Span::none exactly when the
\* request path equals, as a whole case-sensitive string, some element of
\* that thread's exclusion list; every other path gets a root span.
C1_ExactMatch ==
    [][lastRequest' # lastRequest =>
          /\ lastRequest'.span \in {"none", "root"}
          /\ lastRequest'.span = "none"
                <=> InList(EXCLUDED_ROUTES[lastRequest'.thread],
                           path(lastRequest'.uri))]_vars

\* C1 witness: with the list ["/h"], a request for "/H" got a root span.
C1_Witness ==
    /\ lastRequest.thread \in Threads
    /\ EXCLUDED_ROUTES[lastRequest.thread] = << <<"/", "h">> >>
    /\ lastRequest.uri = <<"/", "H">>
    /\ lastRequest.span = "root"

\* C2 as claimed: once some thread has run build(), a request on any thread
\* whose path is in the list of the most recent build produces no span.
C2_ProcessWide ==
    [][( /\ lastRequest' # lastRequest
         /\ lastBuild # "none"
         /\ InList(published[lastBuild], path(lastRequest'.uri)) )
       => lastRequest'.span = "none"]_vars

\* C2 amended: the list is per thread. A request produces no span exactly
\* when its path is among the routes of the last build() run on the thread
\* that handles it; a thread that never ran build() has the empty list.
C2_ThreadLocal ==
    [][lastRequest' # lastRequest =>
          (lastRequest'.span = "none"
              <=> InList(published[lastRequest'.thread],
                         path(lastRequest'.uri)))]_vars

\* C2 witness: t1 built a list holding "/h", t2 built nothing, and a
\* request for "/h" handled on t2 got a root span.
C2_Witness ==
    /\ lastBuild = "t1"
    /\ InList(published["t1"], <<"/", "h">>)
    /\ EXCLUDED_ROUTES["t2"] = <<>>
    /\ lastRequest = [thread |-> "t2", uri |-> <<"/", "h">>, span |-> "root"]

-----------------------------------------------------------------------------
(* Properties of init, checked under SpecInit. *)

\* Thread t is inside, or has ended, at least one call of init.
Called(t) == steps[t] # <<>>

\* The call of init recorded for t is the one that installed the default.
InstalledBy(t) ==
    /\ subscriber.by = t
    /\ InList(steps[t], "set_global_default")
    /\ failed[t] # "set_global_default"

\* The global operations init invokes for configuration c, in program order.
ProgramOrder(c) ==
    <<"set_text_map_propagator">>
    \o (IF c.endpoint_url # None THEN <<"install_batch">> ELSE <<>>)
    \o <<"set_global_default">>
    \o (IF c.tracer_id # None THEN <<"global_tracer">> ELSE <<>>)
    \o <<"LogTracer_init">>

IsPrefix(a, b) == Len(a) <= Len(b) /\ SubSeq(b, 1, Len(a)) = a

\* C4: the default subscriber, once installed, is never replaced, and a
\* call that leaves the install step when a default is already installed
\* ends in a panic (so it does not return Ok).
C4_InstallOnce ==
    [][ /\ subscriber.set => subscriber' = subscriber
        /\ \A t \in Threads :
              (pc[t] = "subscriber" /\ pc'[t] # "subscriber" /\ subscriber.set)
              => (pc'[t] = "idle" /\ result'[t] = "panic") ]_vars

\* C4 witness: one thread's init installed the default and another
\* thread's init then panicked at the install step.
C4_Witness ==
    \E t \in Threads :
        /\ failed[t] = "set_global_default"
        /\ result[t] = "panic"
        /\ subscriber.by \in Threads \ {t}

\* C5: a call in which install_batch or LogTracer::init returned an error
\* has ended by returning Err, not by a panic.
C5_ErrorsReturned ==
    \A t \in Threads :
        failed[t] \in {"install_batch", "LogTracer_init"}
        => (pc[t] = "idle" /\ result[t] = "Err")

\* C5 witness: one call returned Err from the exporter and another from
\* the log bridge.
C5_Witness ==
    /\ failed["t1"] = "install_batch" /\ result["t1"] = "Err"
    /\ failed["t2"] = "LogTracer_init" /\ result["t2"] = "Err"

\* C6 as claimed: a call that found a default subscriber already installed
\* returns that failure as Err.
C6_InstallErrorReturned ==
    \A t \in Threads : failed[t] = "set_global_default" => result[t] = "Err"

\* C6 amended: a call that reaches the install step with a default already
\* installed panics; the Err values init returns come only from exporter
\* construction and from the log bridge.
C6_InstallFailurePanics ==
    \A t \in Threads :
        /\ failed[t] = "set_global_default" => result[t] = "panic"
        /\ result[t] = "Err" => failed[t] \in {"install_batch", "LogTracer_init"}

\* C6 witness: the host had installed a default; init panicked on it.
C6_Witness ==
    \E t \in Threads :
        /\ subscriber = HostSubscriber
        /\ failed[t] = "set_global_default"
        /\ result[t] = "panic"

\* C7: a step of a call whose endpoint_url is None is never install_batch,
\* leaves the global tracer provider alone, and any subscriber it installs
\* has no OpenTelemetry layer; the provider changes only in a call whose
\* endpoint_url is Some.
C7_NoEndpointNoExporter ==
    [][\A t \in Threads :
          (pc'[t] # pc[t] \/ steps'[t] # steps[t]) =>
              /\ cfg'[t].endpoint_url = None =>
                    /\ ~InList(steps'[t], "install_batch")
                    /\ tracer_provider' = tracer_provider
                    /\ subscriber' # subscriber
                          => ~InList(subscriber'.layers, "telemetry")
              /\ tracer_provider' # tracer_provider
                    => cfg'[t].endpoint_url # None]_vars

\* C7 witness: a call with no endpoint returned Ok, its subscriber has no
\* OpenTelemetry layer and no tracer provider was ever installed.
C7_Witness ==
    \E t \in Threads :
        /\ cfg[t].endpoint_url = None
        /\ cfg[t].app_name = "svc"
        /\ result[t] = "Ok"
        /\ InstalledBy(t)
        /\ ~InList(subscriber.layers, "telemetry")
        /\ tracer_provider = NoProvider

\* C8: the subscriber a call installed holds exactly one formatting layer:
\* the compact one when env is exactly "development", otherwise the JSON
\* one with span events NONE, whether or not an endpoint is configured.
C8_FormatByEnv ==
    \A t \in Threads :
        InstalledBy(t) =>
            LET fmts == { i \in DOMAIN subscriber.layers :
                            subscriber.layers[i] \in
                                {"fmt_compact", "fmt_json_span_events_NONE"} }
            IN  /\ Cardinality(fmts) = 1
                /\ \A i \in fmts :
                      subscriber.layers[i] =
                          IF cfg[t].env = "development" THEN "fmt_compact"
                          ELSE "fmt_json_span_events_NONE"

\* C8 witness: env "development" with no endpoint gave the compact layer.
C8_Witness ==
    \E t \in Threads :
        /\ InstalledBy(t)
        /\ cfg[t].env = "development"
        /\ cfg[t].endpoint_url = None
        /\ subscriber.layers = <<"fmt_compact", "env_filter">>

\* C9: a call with endpoint_url = None that entered when no subscriber and
\* no logger was installed, and that no other thread's init beat to the
\* install, returns Ok and leaves its own subscriber as the default.
C9_FreshInitOk ==
    \A t \in Threads :
        ( /\ Called(t) /\ pc[t] = "idle"
          /\ fresh[t]
          /\ cfg[t].endpoint_url = None
          /\ subscriber.by \notin Threads \ {t} )
        => ( /\ result[t] = "Ok"
             /\ InstalledBy(t)
             /\ logger = "LogTracer" )

\* C9 witness: the default configuration returned Ok in a fresh process.
C9_Witness ==
    \E t \in Threads :
        /\ cfg[t] = DefaultConfig
        /\ fresh[t]
        /\ pc[t] = "idle"
        /\ result[t] = "Ok"
        /\ InstalledBy(t)

\* C10: what a call has invoked is always an initial part of the program
\* order for its configuration, starting with the propagator; a call that
\* returned Ok ran all of it; a failed operation is the last one invoked;
\* and a call that returned Err from the exporter invoked only the
\* propagator and install_batch.
C10_FixedOrder ==
    \A t \in Threads :
        Called(t) =>
            /\ propagator = "TraceContextPropagator"
            /\ steps[t][1] = "set_text_map_propagator"
            /\ IsPrefix(steps[t], ProgramOrder(cfg[t]))
            /\ result[t] = "Ok" => steps[t] = ProgramOrder(cfg[t])
            /\ failed[t] # "none"
                  => (pc[t] = "idle" /\ steps[t][Len(steps[t])] = failed[t])
            /\ failed[t] = "install_batch"
                  => steps[t] = <<"set_text_map_propagator", "install_batch">>

\* C10 witness: one call ran all five operations in order and returned Ok;
\* another returned Err from the exporter after the propagator alone.
C10_Witness ==
    /\ result["t1"] = "Ok"
    /\ steps["t1"] = <<"set_text_map_propagator", "install_batch",
                       "set_global_default", "global_tracer", "LogTracer_init">>
    /\ result["t2"] = "Err"
    /\ failed["t2"] = "install_batch"
    /\ steps["t2"] = <<"set_text_map_propagator", "install_batch">>

====
